---- MODULE Spec2Model ----
(***************************************************************************)
(* Model of cmd/cindex (cindex.go): one run of main() is a sequence of     *)
(* steps over the index directory (master, master~, master~~) and the      *)
(* corpus file tree.  Strings are tuples of character codes, so sorting,   *)
(* path splitting and the hidden-name test are computed as the code does.  *)
(***************************************************************************)
EXTENDS Integers, Sequences, FiniteSets, TLC

\* ------------------------------------------------------------------ bounds
\* most runs of the program in one behaviour
MaxRuns == 3
\* longest argument list the root resolution is applied to on its own
MaxArgs == 3

\* ----------------------------------------------------------------- strings
Min(a, b) == IF a < b THEN a ELSE b

\* s < t in byte-wise lexicographic order (Go string comparison)
StrLess(s, t) ==
  \E i \in 1..(Min(Len(s), Len(t)) + 1) :
     /\ \A j \in 1..(i - 1) : s[j] = t[j]
     /\ \/ i > Len(s) /\ i <= Len(t)
        \/ i <= Len(s) /\ i <= Len(t) /\ s[i] < t[i]

HasPrefix(s, p) == Len(p) <= Len(s) /\ SubSeq(s, 1, Len(p)) = p

RECURSIVE Insert(_, _)
Insert(x, sorted) ==
  IF sorted = <<>> THEN <<x>>
  ELSE IF StrLess(Head(sorted), x) THEN <<Head(sorted)>> \o Insert(x, Tail(sorted))
  ELSE <<x>> \o sorted

\* sort.Strings: ascending order, equal elements kept
RECURSIVE SortStrings(_)
SortStrings(a) == IF a = <<>> THEN <<>> ELSE Insert(Head(a), SortStrings(Tail(a)))

Range(f) == {f[i] : i \in DOMAIN f}

RECURSIVE SetToSortedSeq(_)
SetToSortedSeq(S) ==
  IF S = {} THEN <<>>
  ELSE LET m == CHOOSE x \in S : \A y \in S : y = x \/ StrLess(x, y)
       IN <<m>> \o SetToSortedSeq(S \ {m})

\* ------------------------------------------------------------------- paths
\* index of the last '/' (47) in p, 0 if none
RECURSIVE LastSlash(_, _)
LastSlash(p, i) == IF i = 0 THEN 0 ELSE IF p[i] = 47 THEN i ELSE LastSlash(p, i - 1)

\* filepath.Split: dir keeps its trailing slash, elem is the final component
Split(p) ==
  LET i == LastSlash(p, Len(p))
  IN [dir |-> SubSeq(p, 1, i), elem |-> SubSeq(p, i + 1, Len(p))]

\* the slash-separated components of p, empty ones included
RECURSIVE Components(_, _)
Components(p, cur) ==
  IF p = <<>> THEN <<cur>>
  ELSE IF Head(p) = 47 THEN <<cur>> \o Components(Tail(p), <<>>)
  ELSE Components(Tail(p), Append(cur, Head(p)))

\* filepath.Clean on a rooted path: drops "", "." and resolves ".."
RECURSIVE CleanComps(_, _)
CleanComps(cs, out) ==
  IF cs = <<>> THEN out
  ELSE LET c == Head(cs)
       IN IF c = <<>> \/ c = <<46>> THEN CleanComps(Tail(cs), out)
          ELSE IF c = <<46, 46>>
               THEN CleanComps(Tail(cs), IF out = <<>> THEN out ELSE SubSeq(out, 1, Len(out) - 1))
          ELSE CleanComps(Tail(cs), Append(out, c))

RECURSIVE JoinComps(_)
JoinComps(cs) == IF cs = <<>> THEN <<>> ELSE <<47>> \o Head(cs) \o JoinComps(Tail(cs))

Clean(p) ==
  LET cs == CleanComps(Components(p, <<>>), <<>>)
  IN IF cs = <<>> THEN <<47>> ELSE JoinComps(cs)

\* working directory of the process: "/"
Cwd == <<47>>

\* filepath.Abs: a rooted path is cleaned; a relative one is joined to the
\* working directory, and fails when the working directory cannot be read
Abs(arg, wdOk) ==
  IF arg # <<>> /\ arg[1] = 47 THEN [err |-> FALSE, path |-> Clean(arg)]
  ELSE IF wdOk THEN [err |-> FALSE, path |-> Clean(Cwd \o <<47>> \o arg)]
  ELSE [err |-> TRUE, path |-> <<>>]

\* -------------------------------------------------------- corpus file tree
\* Every entry the corpus can hold.  isDir/regular are the lstat mode bits,
\* readErr: reading the directory's names fails.
Entries ==
  { [path |-> <<47,97>>,                          isDir |-> TRUE,  regular |-> FALSE, readErr |-> FALSE],  \* /a
    [path |-> <<47,97,47,102>>,                   isDir |-> FALSE, regular |-> TRUE,  readErr |-> FALSE],  \* /a/f
    [path |-> <<47,97,47,46,103,105,116>>,        isDir |-> TRUE,  regular |-> FALSE, readErr |-> FALSE],  \* /a/.git
    [path |-> <<47,97,47,46,103,105,116,47,99>>,  isDir |-> FALSE, regular |-> TRUE,  readErr |-> FALSE],  \* /a/.git/c
    [path |-> <<47,97,47,115>>,                   isDir |-> TRUE,  regular |-> FALSE, readErr |-> FALSE],  \* /a/s
    [path |-> <<47,97,47,115,47,103>>,            isDir |-> FALSE, regular |-> TRUE,  readErr |-> FALSE],  \* /a/s/g
    [path |-> <<47,97,47,116,126>>,               isDir |-> FALSE, regular |-> TRUE,  readErr |-> FALSE],  \* /a/t~
    [path |-> <<47,98>>,                          isDir |-> TRUE,  regular |-> FALSE, readErr |-> FALSE],  \* /b
    [path |-> <<47,98,47,104>>,                   isDir |-> FALSE, regular |-> TRUE,  readErr |-> FALSE],  \* /b/h
    [path |-> <<47,98,47,108>>,                   isDir |-> FALSE, regular |-> FALSE, readErr |-> FALSE],  \* /b/l (symlink)
    [path |-> <<47,98,47,117>>,                   isDir |-> TRUE,  regular |-> FALSE, readErr |-> TRUE],  \* /b/u (unreadable)
    [path |-> <<47,98,47,118,101,110,118>>,       isDir |-> TRUE,  regular |-> FALSE, readErr |-> FALSE],  \* /b/venv
    [path |-> <<47,98,47,118,101,110,118,47,112>>,isDir |-> FALSE, regular |-> TRUE,  readErr |-> FALSE] } \* /b/venv/p

EntryPaths == {e.path : e \in Entries}
EntryOf(p) == CHOOSE e \in Entries : e.path = p

\* entries that come and go between runs: /a/s/g
Optional == { <<47,97,47,115,47,103>> }

\* os.Lstat on the corpus fs (a set of present paths): info is NilInfo on error
NilInfo == [nil |-> TRUE, isDir |-> FALSE, regular |-> FALSE]
Lstat(fsys, p) ==
  IF p \notin fsys
  THEN [err |-> TRUE, info |-> NilInfo]
  ELSE [err |-> FALSE,
        info |-> [nil |-> FALSE, isDir |-> EntryOf(p).isDir, regular |-> EntryOf(p).regular]]

\* readDirNames: the sorted names in a directory, as full paths (Join(path, name))
ReadDirNames(fsys, d) ==
  IF EntryOf(d).readErr THEN [err |-> TRUE, names |-> <<>>]
  ELSE [err |-> FALSE,
        names |-> SetToSortedSeq({p \in fsys : Split(p).dir = d \o <<47>>})]

\* ------------------------------------------------------ exclusion patterns
\* A pattern is kept in parsed form: ok is FALSE when the text does not
\* compile; alts are the alternatives, each a sequence of character codes
\* with 0 standing for '.', eol is a trailing '$'.
BuiltinPatterns ==
  << [ok |-> TRUE, eol |-> TRUE,  alts |-> {<<47,0,103,105,116>>}],                              \* /.git$
     [ok |-> TRUE, eol |-> FALSE, alts |-> {<<47,110,111,100,101,95,109,111,100,117,108,101,115>>}], \* /node_modules
     [ok |-> TRUE, eol |-> FALSE, alts |-> {<<47,98,97,122,101,108,45,98,105,110>>,
                                            <<47,98,97,122,101,108,45,111,117,116>>,
                                            <<47,98,97,122,101,108,45,116,101,115,116,108,111,103,115>>}], \* /bazel-(bin|out|testlogs)
     [ok |-> TRUE, eol |-> FALSE, alts |-> {<<47,118,101,110,118>>}],                            \* /venv
     [ok |-> TRUE, eol |-> FALSE, alts |-> {<<47,0,99,115,101,97,114,99,104,105,110,100,101,120>>}], \* /.csearchindex
     [ok |-> TRUE, eol |-> FALSE, alts |-> {<<47,103,111,47,112,107,103,47,109,111,100>>}] >>    \* .*/go/pkg/mod

\* regexp.Compile over the whole pattern list: TRUE iff every pattern compiles
CompileAll(patterns) == \A i \in DOMAIN patterns : patterns[i].ok

MatchAt(tokens, s, i) ==
  /\ i + Len(tokens) - 1 <= Len(s)
  /\ \A k \in 1..Len(tokens) : tokens[k] = 0 \/ tokens[k] = s[i + k - 1]

\* r.MatchString(p, true, true) > 0: the pattern matches somewhere in p
MatchString(r, s) ==
  \E alt \in r.alts : \E i \in 1..Len(s) :
     /\ MatchAt(alt, s, i)
     /\ r.eol => i + Len(alt) - 1 = Len(s)

anyRegexpMatches(excludeRegexp, p) ==
  \E i \in DOMAIN excludeRegexp : MatchString(excludeRegexp[i], p)

\* final path component that marks a temporary or hidden entry:
\* starts with '.', '#' or '~', or ends with '~'
HiddenElem(elem) ==
  elem[1] = 46 \/ elem[1] = 35 \/ elem[1] = 126 \/ elem[Len(elem)] = 126

\* variant: the pattern test of line 178 without info.IsDir()
WalkFnNoDirTest(excludeRegexp, path, info, err) ==
  LET elem == Split(path).elem IN
  IF info.nil THEN [ret |-> "panic", add |-> FALSE, logged |-> FALSE]
  ELSE IF anyRegexpMatches(excludeRegexp, path)
       THEN [ret |-> "SkipDir", add |-> FALSE, logged |-> FALSE]
  ELSE IF elem # <<>> /\ HiddenElem(elem)
       THEN [ret |-> IF info.isDir THEN "SkipDir" ELSE "nil", add |-> FALSE, logged |-> FALSE]
  ELSE IF err THEN [ret |-> "nil", add |-> FALSE, logged |-> TRUE]
  ELSE [ret |-> "nil", add |-> info.regular, logged |-> FALSE]

\* variant: the callback never returns filepath.SkipDir
WalkFnNeverSkipDir(excludeRegexp, path, info, err) ==
  LET elem == Split(path).elem IN
  IF info.nil THEN [ret |-> "panic", add |-> FALSE, logged |-> FALSE]
  ELSE IF info.isDir /\ anyRegexpMatches(excludeRegexp, path)
       THEN [ret |-> "nil", add |-> FALSE, logged |-> FALSE]
  ELSE IF elem # <<>> /\ HiddenElem(elem)
       THEN [ret |-> "nil", add |-> FALSE, logged |-> FALSE]
  ELSE IF err THEN [ret |-> "nil", add |-> FALSE, logged |-> TRUE]
  ELSE [ret |-> "nil", add |-> info.regular, logged |-> FALSE]

\* The filepath.Walk callback.  ret is what it returns ("nil", "SkipDir") or
\* "panic" when info is nil and info.IsDir() is evaluated; add: ix.AddFile
\* is called; logged: the error is logged.
WalkFn(excludeRegexp, path, info, err) ==
  LET elem == Split(path).elem IN
  IF info.nil THEN [ret |-> "panic", add |-> FALSE, logged |-> FALSE]
  ELSE IF info.isDir /\ anyRegexpMatches(excludeRegexp, path)
       THEN [ret |-> "SkipDir", add |-> FALSE, logged |-> FALSE]
  ELSE IF elem # <<>> /\ HiddenElem(elem)
       THEN [ret |-> IF info.isDir THEN "SkipDir" ELSE "nil", add |-> FALSE, logged |-> FALSE]
  ELSE IF err THEN [ret |-> "nil", add |-> FALSE, logged |-> TRUE]
  ELSE [ret |-> "nil", add |-> info.regular, logged |-> FALSE]

\* ------------------------------------------------------- index artifacts
\* index.File(): the master path; the temporary paths append "~" to it
master == ".csearchindex"
IndexPaths == {master, master \o "~", master \o "~~"}

\* what a path of the index directory holds
NoFile == [exists |-> FALSE, complete |-> FALSE, paths |-> <<>>, names |-> <<>>]
\* a created file that has not been written to the end
PartialFile == [exists |-> TRUE, complete |-> FALSE, paths |-> <<>>, names |-> <<>>]

\* index.Create(file): the file is created, truncated if it exists
Create(d, file) == [d EXCEPT ![file] = PartialFile]

\* ix.AddPaths(paths) and ix.AddFile(name) on the writer's memory
AddPaths(w, paths) == [w EXCEPT !.paths = w.paths \o paths]
AddFile(w, name) == [w EXCEPT !.names = Append(w.names, name)]

\* ix.Flush(): the writer's roots and names are written out and the file closed
Flush(d, file, w) ==
  [d EXCEPT ![file] = [exists |-> TRUE, complete |-> TRUE, paths |-> w.paths, names |-> w.names]]

\* index.Open(path) succeeds on a complete artifact only
CanOpen(a) == a.exists /\ a.complete

\* name lies at or beneath root
Under(name, root) == name = root \/ HasPrefix(name, root \o <<47>>)

\* index.Merge(dst, src1, src2): the roots of both; the names of src2 and
\* the names of src1 that no root of src2 covers
Merged(src1, src2) ==
  [exists |-> TRUE, complete |-> TRUE,
   paths |-> SetToSortedSeq(Range(src1.paths) \cup Range(src2.paths)),
   names |-> SetToSortedSeq(Range(src2.names) \cup
               {n \in Range(src1.names) : \A r \in Range(src2.paths) : ~Under(n, r)})]

\* ------------------------------------------------------------ main, pieces
\* variant: -reset without paths is not recognised
DispatchNoResetOnly(list, reset, nargs) ==
  IF list THEN "LIST" ELSE "BUILD"

\* variant: -list is looked at only after the paths
DispatchListLast(list, reset, nargs) ==
  IF reset /\ nargs = 0 THEN "RESETONLY"
  ELSE IF nargs > 0 THEN "BUILD"
  ELSE IF list THEN "LIST"
  ELSE "BUILD"

\* which of the three paths of main a command line takes (lines 93, 111)
Dispatch(list, reset, nargs) ==
  IF list THEN "LIST"
  ELSE IF reset /\ nargs = 0 THEN "RESETONLY"
  ELSE "BUILD"

\* lines 124-132: each argument made absolute, blanked when that fails
Absolutize(a, wdOk) ==
  [i \in DOMAIN a |-> IF Abs(a[i], wdOk).err THEN <<>> ELSE Abs(a[i], wdOk).path]

\* lines 135-137: leading empty strings dropped
RECURSIVE DropLeadingEmpty(_)
DropLeadingEmpty(a) ==
  IF Len(a) > 0 /\ a[1] = <<>> THEN DropLeadingEmpty(Tail(a)) ELSE a

\* lines 125-128: the arguments filepath.Abs fails on, each one logged
AbsErrors(a, wdOk) == {a[i] : i \in {j \in DOMAIN a : Abs(a[j], wdOk).err}}

\* variant: the blanked entries are left in the list
ResolveArgsKeepEmpty(a, wdOk) == SortStrings(Absolutize(a, wdOk))

\* variant: the list is not sorted before the leading blanks are dropped
ResolveArgsUnsorted(a, wdOk) == DropLeadingEmpty(Absolutize(a, wdOk))

\* lines 124-137: the working root list
ResolveArgs(a, wdOk) == DropLeadingEmpty(SortStrings(Absolutize(a, wdOk)))

\* variant: reset mode is forced whatever os.Stat says
ResetModeAlways(reset, d) == TRUE

\* variant: os.Stat(master) is not consulted
ResetModeFlagOnly(reset, d) == reset

\* lines 140-143: reset mode is forced when os.Stat(master) fails
ResetMode(reset, d) == reset \/ ~d[master].exists

\* variant: the new index is always written over the master
StagingPathAlwaysMaster(reset) == master

\* variant: the new index is always written to the temporary path
StagingPathAlwaysTemp(reset) == master \o "~"

\* lines 144-147: where the new index is written
StagingPath(reset) == IF reset THEN master ELSE master \o "~"

\* variant: the merge writes its output to the master path
MergeCallIntoMaster(file) == [dst |-> master, src1 |-> master, src2 |-> file]

\* variant: the merge reads the new index twice and the master never
MergeCallLosesMaster(file) == [dst |-> file \o "~", src1 |-> file, src2 |-> file]

\* line 209: index.Merge(file+"~", master, file)
MergeCall(file) == [dst |-> file \o "~", src1 |-> master, src2 |-> file]

\* variant: the master is removed to make room for the rename
RemoveTargetMaster(file) == master

\* variant: the merge output is removed, the new index is left behind
RemoveTargetMergeOutput(file) == file \o "~"

\* line 210: os.Remove(file)
RemoveTarget(file) == file
\* variant: the arguments of the rename are swapped
RenameCallSwapped(file) == [from |-> master, to |-> file \o "~"]

\* line 211: os.Rename(file+"~", master)
RenameCall(file) == [from |-> file \o "~", to |-> master]

\* ------------------------------------------------------------------ state
\* A command line: the flags, the path arguments, the -exclude values and
\* whether the working directory can be read (os.Getwd inside filepath.Abs).
Cmd(list, reset, a, excl, wdOk) ==
  [list |-> list, reset |-> reset, args |-> a, exclude |-> excl, wdOk |-> wdOk]

NoExclude == <<>>
\* -exclude '/s$'
GoodExclude == << [ok |-> TRUE, eol |-> TRUE, alts |-> {<<47,115>>}] >>
\* -exclude '(' does not compile
BadExclude == << [ok |-> FALSE, eol |-> FALSE, alts |-> {}] >>

\* the command lines a run is started with
CommandLines ==
  { Cmd(TRUE,  FALSE, <<>>, NoExclude, TRUE),                            \* cindex -list
    Cmd(TRUE,  TRUE,  << <<47,97>> >>, NoExclude, TRUE),                 \* cindex -list -reset /a
    Cmd(FALSE, TRUE,  <<>>, NoExclude, TRUE),                            \* cindex -reset
    Cmd(FALSE, TRUE,  <<>>, BadExclude, TRUE),                           \* cindex -reset -exclude '('
    Cmd(FALSE, FALSE, <<>>, NoExclude, TRUE),                            \* cindex
    Cmd(FALSE, FALSE, << <<47,97>> >>, NoExclude, TRUE),                 \* cindex /a
    Cmd(FALSE, FALSE, << <<47,97>> >>, GoodExclude, TRUE),               \* cindex -exclude '/s$' /a
    Cmd(FALSE, FALSE, << <<47,97>> >>, BadExclude, TRUE),                \* cindex -exclude '(' /a
    Cmd(FALSE, FALSE, << <<47,98>> >>, NoExclude, TRUE),                 \* cindex /b
    Cmd(FALSE, TRUE,  << <<47,98>> >>, NoExclude, TRUE),                 \* cindex -reset /b
    Cmd(FALSE, FALSE, << <<98>>, <<47,97>> >>, NoExclude, FALSE),        \* cindex b /a, working directory unreadable
    Cmd(FALSE, FALSE, << <<47,97,47,46,103,105,116,47,99>>, <<47,97>> >>,
        NoExclude, TRUE),                                                \* cindex /a/.git/c /a
    Cmd(FALSE, FALSE, << <<47,120>> >>, NoExclude, TRUE) }               \* cindex /x

VARIABLES
  disk,          \* index directory: path -> artifact
  fs,            \* corpus file tree: the set of present paths
  pc,            \* position of the running process in main, "idle" when none runs
  run,           \* command line of the current (or last) run
  args,          \* working root list (line 137 onwards)
  resetFlag,     \* *resetFlag after line 143
  file,          \* path the new index is written to
  ix,            \* the index writer's roots and names
  excludeRegexp, \* compiled exclusion patterns
  rootIdx,       \* roots of args already handed to filepath.Walk
  stack,         \* entries the walk of the current root has still to visit
  visited,       \* paths the callback was called on in this run
  errlog,        \* paths whose error was logged in this run
  output,        \* what -list printed
  before,        \* disk as it was when the run started
  exit,          \* how the last run ended: "none", "ok", "fatal", "panic", "killed"
  endpc,         \* position at which the last run ended
  runs,          \* runs started so far
  last,          \* the build run that reached "done" just before this run with
                 \* no change of the corpus in between, if any
  shadow,        \* the index directory as this run would have it, had it
                 \* found neither temporary file when it started
  fnIn,          \* input of a function of main applied on its own
  fnOut          \* its result

vars == <<disk, fs, pc, run, args, resetFlag, file, ix, excludeRegexp, rootIdx,
          stack, visited, errlog, output, before, exit, endpc, runs, last,
          shadow, fnIn, fnOut>>

\* the memory of the process
mem == <<args, resetFlag, file, ix, excludeRegexp, rootIdx, stack, visited, errlog>>
\* what a step inside a run leaves alone
envir == <<fs, run, output, before, runs, last, fnIn, fnOut>>

NoWriter == [paths |-> <<>>, names |-> <<>>]
\* the two temporary paths of lines 146 and 209
tmp1 == master \o "~"
tmp2 == master \o "~~"
\* the index directory d without the temporary files
Stripped(d) == [d EXCEPT ![tmp1] = NoFile, ![tmp2] = NoFile]
NoBuild == [valid |-> FALSE, reset |-> FALSE, exclude |-> <<>>, roots |-> {}, master |-> NoFile]
NoRun == Cmd(FALSE, FALSE, <<>>, NoExclude, TRUE)

\* no function of main is applied on its own
NoCall ==
  [op |-> "none", args |-> <<>>, wdOk |-> TRUE,
   patterns |-> <<>>, path |-> <<>>, info |-> NilInfo, err |-> FALSE]
NoResult ==
  [done |-> FALSE, list |-> <<>>,
   res |-> [ret |-> "none", add |-> FALSE, logged |-> FALSE]]

\* no process runs and the index directory is empty
Idle ==
  /\ disk = [p \in IndexPaths |-> NoFile]
  /\ fs = EntryPaths
  /\ pc = "idle"
  /\ run = NoRun
  /\ args = <<>> /\ resetFlag = FALSE /\ file = master /\ ix = NoWriter
  /\ excludeRegexp = <<>> /\ rootIdx = 0 /\ stack = <<>>
  /\ visited = {} /\ errlog = {} /\ output = <<>>
  /\ before = [p \in IndexPaths |-> NoFile]
  /\ shadow = [p \in IndexPaths |-> NoFile]
  /\ exit = "none" /\ endpc = "idle"
  /\ runs = 0
  /\ last = NoBuild

Init == Idle /\ fnIn = NoCall /\ fnOut = NoResult

\* the process is gone, and its memory with it
ProcessExit(how) ==
  /\ exit' = how /\ endpc' = pc
  /\ pc' = "idle"
  /\ args' = <<>> /\ resetFlag' = FALSE /\ file' = master /\ ix' = NoWriter
  /\ excludeRegexp' = <<>> /\ rootIdx' = 0 /\ stack' = <<>>
  /\ visited' = {} /\ errlog' = {}

\* a command line is read (lines 79-91)
Launch(c) ==
  /\ pc = "idle" /\ runs < MaxRuns
  /\ runs' = runs + 1
  /\ run' = c
  /\ before' = disk
  /\ last' = IF exit = "ok" /\ endpc = "finish" THEN last ELSE NoBuild
  /\ UNCHANGED <<fs, fnIn, fnOut>>

\* ---------------------------------------------------------------- actions
\* lines 93-99: -list prints the roots of the master and returns
List(c) ==
  /\ Launch(c)
  /\ Dispatch(c.list, c.reset, Len(c.args)) = "LIST"
  /\ IF CanOpen(disk[master])
     THEN output' = disk[master].paths /\ ProcessExit("ok")
     ELSE output' = <<>> /\ ProcessExit("fatal")
  /\ UNCHANGED disk
  /\ shadow' = Stripped(disk)

\* lines 111-114: -reset without paths removes the master and returns
ResetOnly(c) ==
  /\ Launch(c)
  /\ Dispatch(c.list, c.reset, Len(c.args)) = "RESETONLY"
  /\ disk' = [disk EXCEPT ![master] = NoFile]
  /\ shadow' = [Stripped(disk) EXCEPT ![master] = NoFile]
  /\ output' = <<>>
  /\ ProcessExit("ok")

\* lines 115-173: the roots are resolved, the mode chosen, the patterns
\* compiled, the new index created and the roots recorded in it
BuildStart(c) ==
  /\ Launch(c)
  /\ Dispatch(c.list, c.reset, Len(c.args)) = "BUILD"
  /\ output' = <<>>
  /\ IF Len(c.args) = 0 /\ ~CanOpen(disk[master])
     THEN \* line 116: index.Open fails
          ProcessExit("fatal") /\ UNCHANGED disk /\ shadow' = Stripped(disk)
     ELSE LET a0 == IF Len(c.args) = 0 THEN disk[master].paths ELSE c.args
              a1 == ResolveArgs(a0, c.wdOk)
              rm == ResetMode(c.reset, disk)
              f == StagingPath(rm)
              pats == BuiltinPatterns \o c.exclude
          IN IF ~CompileAll(pats)
             THEN \* line 153: panic(err)
                  ProcessExit("panic") /\ UNCHANGED disk /\ shadow' = Stripped(disk)
             ELSE /\ disk' = Create(disk, f)
                  /\ shadow' = Create(Stripped(disk), f)
                  /\ ix' = AddPaths(NoWriter, a1)
                  /\ args' = a1 /\ resetFlag' = rm /\ file' = f
                  /\ excludeRegexp' = pats
                  /\ rootIdx' = 0 /\ stack' = <<>>
                  /\ visited' = {} /\ errlog' = AbsErrors(a0, c.wdOk)
                  /\ pc' = "walk"
                  /\ exit' = "none" /\ endpc' = "idle"

\* line 174: the next root is handed to filepath.Walk, or the loop ends
NextRoot ==
  /\ pc = "walk" /\ stack = <<>>
  /\ IF rootIdx < Len(args)
     THEN /\ rootIdx' = rootIdx + 1
          /\ stack' = <<args[rootIdx + 1]>>
          /\ pc' = "walk"
     ELSE /\ pc' = "flush"
          /\ UNCHANGED <<rootIdx, stack>>
  /\ UNCHANGED <<disk, shadow, args, resetFlag, file, ix, excludeRegexp, visited,
                 errlog, exit, endpc>>
  /\ UNCHANGED envir

\* lines 176-202: filepath.Walk visits the next entry and calls the callback
WalkStep ==
  /\ pc = "walk" /\ stack # <<>>
  /\ LET path == Head(stack)
         st == Lstat(fs, path)
         rd == IF ~st.err /\ st.info.isDir THEN ReadDirNames(fs, path)
               ELSE [err |-> FALSE, names |-> <<>>]
         r == WalkFn(excludeRegexp, path, st.info, st.err \/ rd.err)
     IN IF r.ret = "panic"
        THEN ProcessExit("panic")
        ELSE /\ visited' = visited \cup {path}
             /\ ix' = IF r.add THEN AddFile(ix, path) ELSE ix
             /\ errlog' = IF r.logged THEN errlog \cup {path} ELSE errlog
             /\ stack' = (IF r.ret = "nil" /\ ~rd.err THEN rd.names ELSE <<>>) \o Tail(stack)
             /\ UNCHANGED <<pc, args, resetFlag, file, excludeRegexp, rootIdx, exit, endpc>>
  /\ UNCHANGED <<disk, shadow>>
  /\ UNCHANGED envir

\* variant: the merge is not guarded by !*resetFlag
FlushStepAlwaysMerge ==
  /\ pc = "flush"
  /\ disk' = Flush(disk, file, ix)
  /\ shadow' = Flush(shadow, file, ix)
  /\ pc' = "merge"
  /\ UNCHANGED <<mem, exit, endpc>>
  /\ UNCHANGED envir

\* lines 204-205: ix.Flush()
FlushStep ==
  /\ pc = "flush"
  /\ disk' = Flush(disk, file, ix)
  /\ shadow' = Flush(shadow, file, ix)
  /\ pc' = IF resetFlag THEN "finish" ELSE "merge"
  /\ UNCHANGED <<mem, exit, endpc>>
  /\ UNCHANGED envir

\* line 209, first half: index.Merge opens both inputs and creates dst
MergeOpen ==
  /\ pc = "merge"
  /\ LET m == MergeCall(file)
     IN IF CanOpen(disk[m.src1]) /\ CanOpen(disk[m.src2])
        THEN /\ disk' = Create(disk, m.dst)
             /\ shadow' = Create(shadow, m.dst)
             /\ pc' = "merging"
             /\ UNCHANGED <<mem, exit, endpc>>
        ELSE ProcessExit("fatal") /\ UNCHANGED <<disk, shadow>>
  /\ UNCHANGED envir

\* line 209, second half: index.Merge writes dst to the end
MergeWrite ==
  /\ pc = "merging"
  /\ LET m == MergeCall(file)
     IN /\ disk' = [disk EXCEPT ![m.dst] = Merged(disk[m.src1], disk[m.src2])]
        /\ shadow' = [shadow EXCEPT ![m.dst] = Merged(shadow[m.src1], shadow[m.src2])]
  /\ pc' = "remove"
  /\ UNCHANGED <<mem, exit, endpc>>
  /\ UNCHANGED envir

\* line 210: os.Remove(file)
RemoveStep ==
  /\ pc = "remove"
  /\ disk' = [disk EXCEPT ![RemoveTarget(file)] = NoFile]
  /\ shadow' = [shadow EXCEPT ![RemoveTarget(file)] = NoFile]
  /\ pc' = "rename"
  /\ UNCHANGED <<mem, exit, endpc>>
  /\ UNCHANGED envir

\* line 211: os.Rename(file+"~", master); an error is ignored
RenameStep ==
  /\ pc = "rename"
  /\ LET r == RenameCall(file)
     IN /\ disk' = IF disk[r.from].exists
                   THEN [disk EXCEPT ![r.to] = disk[r.from], ![r.from] = NoFile]
                   ELSE disk
        /\ shadow' = IF shadow[r.from].exists
                     THEN [shadow EXCEPT ![r.to] = shadow[r.from], ![r.from] = NoFile]
                     ELSE shadow
  /\ pc' = "finish"
  /\ UNCHANGED <<mem, exit, endpc>>
  /\ UNCHANGED envir

\* lines 213-214: "done" is logged and main returns
Finish ==
  /\ pc = "finish"
  /\ last' = [valid |-> TRUE, reset |-> run.reset, exclude |-> run.exclude,
              roots |-> Range(args), master |-> disk[master]]
  /\ ProcessExit("ok")
  /\ UNCHANGED <<disk, shadow, fs, run, output, before, runs, fnIn, fnOut>>

\* ix.Flush() fails with an I/O error: fatal
FlushFail ==
  /\ pc = "flush"
  /\ ProcessExit("fatal")
  /\ UNCHANGED <<disk, shadow>>
  /\ UNCHANGED envir

\* index.Merge fails with an I/O error: fatal
MergeFail ==
  /\ pc \in {"merge", "merging"}
  /\ ProcessExit("fatal")
  /\ UNCHANGED <<disk, shadow>>
  /\ UNCHANGED envir

\* the process is terminated from outside, at any step
Kill ==
  /\ pc # "idle"
  /\ ProcessExit("killed")
  /\ UNCHANGED <<disk, shadow>>
  /\ UNCHANGED envir

\* between runs an optional corpus entry appears or disappears
FsChange ==
  /\ pc = "idle"
  /\ \E p \in Optional : fs' = IF p \in fs THEN fs \ {p} ELSE fs \cup {p}
  /\ last' = NoBuild
  /\ UNCHANGED <<disk, shadow, pc, run, output, before, exit, endpc, runs, fnIn, fnOut>>
  /\ UNCHANGED mem

Next ==
  \/ \E c \in CommandLines : List(c)
  \/ \E c \in CommandLines : ResetOnly(c)
  \/ \E c \in CommandLines : BuildStart(c)
  \/ NextRoot
  \/ WalkStep
  \/ FlushStep
  \/ MergeOpen
  \/ MergeWrite
  \/ RemoveStep
  \/ RenameStep
  \/ Finish
  \/ FlushFail
  \/ MergeFail
  \/ Kill
  \/ FsChange

Spec == Init /\ [][Next]_vars

\* ------------------------------------- the functions of main on their own
\* the arguments a command line is made of: /a, /b, b, /a/, /x
ArgChoices == {<<47,97>>, <<47,98>>, <<98>>, <<47,97,47>>, <<47,120>>}
ArgLists == UNION {[1..k -> ArgChoices] : k \in 0..MaxArgs}
ResolveInputs ==
  {[NoCall EXCEPT !.op = "resolve", !.args = a, !.wdOk = w] : a \in ArgLists, w \in BOOLEAN}

\* the paths the callback is applied to:
\* /, /a, /a/.git, /a/.h, /a/#l, /a/~t, /a/t~, /a/s, /b/venv, /b/venv/p
WalkPaths ==
  { <<47>>, <<47,97>>, <<47,97,47,46,103,105,116>>, <<47,97,47,46,104>>,
    <<47,97,47,35,108>>, <<47,97,47,126,116>>, <<47,97,47,116,126>>,
    <<47,97,47,115>>, <<47,98,47,118,101,110,118>>,
    <<47,98,47,118,101,110,118,47,112>> }
\* a directory, a regular file, a file that is not regular (a symbolic link)
Infos ==
  { [nil |-> FALSE, isDir |-> TRUE,  regular |-> FALSE],
    [nil |-> FALSE, isDir |-> FALSE, regular |-> TRUE],
    [nil |-> FALSE, isDir |-> FALSE, regular |-> FALSE] }
\* no pattern at all, the builtin patterns, the builtin ones and -exclude '/s$'
PatternSets == {<<>>, BuiltinPatterns, BuiltinPatterns \o GoodExclude}
ClassifyInputs ==
  {[NoCall EXCEPT !.op = "classify", !.patterns = ps, !.path = p, !.info = i, !.err = e] :
     ps \in PatternSets, p \in WalkPaths, i \in Infos, e \in BOOLEAN}

InitFn == Idle /\ fnIn \in ResolveInputs \cup ClassifyInputs /\ fnOut = NoResult

\* lines 124-137 applied to an argument list
ResolveStep ==
  /\ fnIn.op = "resolve" /\ ~fnOut.done
  /\ fnOut' = [fnOut EXCEPT !.done = TRUE, !.list = ResolveArgs(fnIn.args, fnIn.wdOk)]
  /\ UNCHANGED <<disk, shadow, pc, exit, endpc, mem, fs, run, output, before, runs, last, fnIn>>

\* lines 176-202 applied to one entry the walk has found
ClassifyStep ==
  /\ fnIn.op = "classify" /\ ~fnOut.done
  /\ fnOut' = [fnOut EXCEPT !.done = TRUE,
                            !.res = WalkFn(fnIn.patterns, fnIn.path, fnIn.info, fnIn.err)]
  /\ UNCHANGED <<disk, shadow, pc, exit, endpc, mem, fs, run, output, before, runs, last, fnIn>>

NextFn ==
  \/ ResolveStep
  \/ ClassifyStep

SpecFn == InitFn /\ [][NextFn]_vars

\* ------------------------------------------------------------ properties
RootSet(a) == Range(a.paths)
FileSet(a) == Range(a.names)

\* positions of a build run before os.Rename has been executed
PreRename == {"walk", "flush", "merge", "merging", "remove", "rename"}
\* the run was started without -list and without -reset on an existing master
StartedIncremental == runs > 0 /\ ~run.list /\ ~run.reset /\ before[master].exists
\* the run is -reset without paths (and without -list)
IsResetOnlyRun == runs > 0 /\ ~run.list /\ run.reset /\ run.args = <<>>
\* the paths of the command line that filepath.Abs resolves
ResolvedGiven ==
  {Abs(run.args[i], run.wdOk).path : i \in {j \in DOMAIN run.args : ~Abs(run.args[j], run.wdOk).err}}

\* C1 (as stated): at every step of every build run, in reset mode as well as
\* in incremental mode, the master is either the prior artifact or a
\* complete new artifact.
C1_MasterNeverPartial ==
  pc # "idle" => (disk[master] = before[master] \/ disk[master].complete)

\* C1 (amended): in an incremental build run the master changes only by the
\* rename of the completely written merge output; it is never written in place.
C1_IncrementalMasterOnlyRenamed ==
  [][ ((pc # "idle" /\ ~resetFlag) \/ (pc' # "idle" /\ ~resetFlag'))
        => \/ disk'[master] = disk[master]
           \/ /\ pc = "rename"
              /\ disk[tmp2].complete
              /\ disk'[master] = disk[tmp2] ]_vars

C1_Witness ==
  /\ pc = "finish" /\ ~resetFlag
  /\ before[master].complete
  /\ disk[master].complete /\ disk[master] # before[master]

\* C2: an incremental run terminated at any step before the rename leaves
\* the master exactly as it was before the run.
C2_KilledBeforeRenameKeepsMaster ==
  (StartedIncremental /\ (pc \in PreRename \/ (pc = "idle" /\ exit = "killed" /\ endpc \in PreRename)))
    => disk[master] = before[master]

C2_Witness ==
  /\ StartedIncremental /\ pc = "idle" /\ exit = "killed" /\ endpc = "rename"
  /\ before[master].complete /\ disk[tmp2].complete /\ disk[tmp2] # disk[master]

\* C3 (as stated): when Flush or Merge fails the run aborts and the master
\* keeps its prior content, in either mode.
C3_FailedFlushOrMergeKeepsMaster ==
  (pc = "idle" /\ exit = "fatal" /\ endpc \in {"flush", "merge", "merging"})
    => disk[master] = before[master]

\* C3 (amended): in incremental mode, when Flush or Merge fails the run
\* aborts before the rename and the master keeps its prior content.
C3_IncrementalFailureKeepsMaster ==
  (StartedIncremental /\ pc = "idle" /\ exit = "fatal" /\ endpc \in {"flush", "merge", "merging"})
    => disk[master] = before[master]

C3_Witness ==
  /\ StartedIncremental /\ pc = "idle" /\ exit = "fatal" /\ endpc = "merging"
  /\ before[master].complete /\ disk[tmp1].complete /\ disk[tmp2].exists

\* C4: after a completed incremental run the master's roots contain every
\* root the master had and every root of the run's working list.
C4_IncrementalKeepsAllRoots ==
  (pc = "finish" /\ ~resetFlag)
    => (RootSet(before[master]) \cup Range(args)) \subseteq RootSet(disk[master])

C4_Witness ==
  /\ pc = "finish" /\ ~resetFlag
  /\ RootSet(before[master]) = { <<47,97>> } /\ Range(args) = { <<47,98>> }
  /\ RootSet(disk[master]) = { <<47,97>>, <<47,98>> }

\* C5: after a completed run with -reset and at least one path the master's
\* root set is exactly the set of resolved paths of that run.
C5_ResetReplacesRoots ==
  (pc = "finish" /\ run.reset /\ run.args # <<>>)
    => RootSet(disk[master]) = ResolvedGiven

C5_Witness ==
  /\ pc = "finish" /\ run.reset /\ run.args # <<>>
  /\ <<47,97>> \in RootSet(before[master])
  /\ RootSet(disk[master]) = { <<47,98>> }

\* C6: -reset without paths removes the master if there is one, touches no
\* temporary artifact and ends without building anything.
C6_ResetOnlyRemovesMaster ==
  IsResetOnlyRun
    => /\ pc = "idle" /\ exit = "ok"
       /\ ~disk[master].exists
       /\ disk[tmp1] = before[tmp1] /\ disk[tmp2] = before[tmp2]

C6_Witness ==
  IsResetOnlyRun /\ before[master].complete /\ ~disk[master].exists

\* C7: a master that exists before a run other than -reset without paths
\* exists at every step of the run and after it, and a build that reaches
\* "done" leaves a master.
C7_OnlyResetOnlyRemovesMaster ==
  /\ (runs > 0 /\ before[master].exists /\ ~IsResetOnlyRun) => disk[master].exists
  /\ pc = "finish" => disk[master].exists

C7_Witness ==
  /\ StartedIncremental /\ pc = "idle" /\ exit = "killed" /\ endpc = "remove"
  /\ disk[master].exists

\* C8: a run with -list changes no artifact whatever else is on the command
\* line, and ends at once, having printed the master's roots if it can be read.
C8_ListMutatesNothing ==
  (runs > 0 /\ run.list)
    => /\ pc = "idle" /\ disk = before
       /\ CanOpen(disk[master]) => (exit = "ok" /\ output = disk[master].paths)

C8_Witness ==
  /\ runs > 0 /\ run.list /\ run.reset /\ run.args # <<>>
  /\ disk[master].complete /\ output # <<>>

\* C9 (as stated): a build run right after a completed build, with the same
\* flags and root paths or with no paths, and with the corpus unchanged,
\* leaves the master's root set and file set as the first run left them.
C9_BuildIdempotent ==
  (/\ pc = "finish" /\ last.valid /\ run.exclude = last.exclude
   /\ \/ Range(args) = last.roots /\ run.reset = last.reset
      \/ run.args = <<>>)
    => /\ RootSet(disk[master]) = RootSet(last.master)
       /\ FileSet(disk[master]) = FileSet(last.master)

\* C9 (amended): the same, where the run without paths is required to follow
\* a run whose working root list held every root recorded in the master.
C9_BuildIdempotentSameRoots ==
  (/\ pc = "finish" /\ last.valid /\ run.exclude = last.exclude
   /\ \/ Range(args) = last.roots /\ run.reset = last.reset
      \/ run.args = <<>> /\ last.roots = RootSet(last.master))
    => /\ RootSet(disk[master]) = RootSet(last.master)
       /\ FileSet(disk[master]) = FileSet(last.master)

C9_Witness ==
  /\ pc = "finish" /\ last.valid /\ run.exclude = last.exclude
  /\ run.args = <<>> /\ last.roots = RootSet(last.master)
  /\ ~resetFlag
  /\ FileSet(disk[master]) # {} /\ disk[master] # before[master]

\* C10: a run whose -exclude pattern does not compile changes no artifact,
\* whatever other flags are given.
C10_BadPatternMutatesNothing ==
  (runs > 0 /\ ~CompileAll(BuiltinPatterns \o run.exclude)) => disk = before

\* C11: an error met while walking (an unreadable directory, an entry whose
\* file information cannot be obtained) never ends the run: nothing but a
\* termination from outside makes a run stop inside the walk.
C11_TraversalErrorNeverFatal ==
  (pc = "idle" /\ endpc = "walk") => exit = "killed"

\* the positions of a build run, from the walk to the last statement
Building == {"walk", "flush", "merge", "merging", "remove", "rename", "finish"}
\* the paths given on the command line that cannot be resolved: filepath.Abs
\* fails on them, or the path they name does not exist
UnresolvableGiven ==
  {run.args[i] : i \in {j \in DOMAIN run.args :
      Abs(run.args[j], run.wdOk).err \/ Abs(run.args[j], run.wdOk).path \notin fs}}
\* the paths at or beneath a root
Beneath(root) == {p \in EntryPaths \cup {root} : p = root \/ HasPrefix(p, root \o <<47>>)}

\* C12 (as stated): a given root that cannot be resolved, one that does not
\* exist included, is reported, is not recorded as a root of the new index,
\* is not walked, and does not keep the run from going on.
C12_UnresolvableRootExcluded ==
  (pc \in Building /\ run.args # <<>>)
    => \A g \in UnresolvableGiven :
         LET r == Abs(g, run.wdOk)
         IN /\ g \in errlog
            /\ r.path \notin Range(ix.paths)
            /\ r.path \notin visited
            /\ r.path \notin Range(stack)

\* C12 (amended): a given root that filepath.Abs cannot make absolute is
\* reported and excluded: the working root list and the roots recorded in the
\* new index are exactly the paths that were made absolute, with no blank
\* entry, only entries at or beneath them are walked, and the walk starts.
C12_UnconvertibleRootExcluded ==
  (pc \in Building /\ run.args # <<>>)
    => /\ AbsErrors(run.args, run.wdOk) \subseteq errlog
       /\ Range(args) = ResolvedGiven
       /\ Range(ix.paths) = ResolvedGiven
       /\ <<>> \notin Range(args) \cup Range(ix.paths)
       /\ \A p \in visited \cup Range(stack) : \E g \in ResolvedGiven : p \in Beneath(g)

C12_Witness ==
  /\ pc = "flush"
  /\ AbsErrors(run.args, run.wdOk) # {}
  /\ Len(args) < Len(run.args)
  /\ visited # {} /\ Range(ix.names) # {}

\* the argument list the root resolution was applied to, made absolute
FnAbs == [i \in DOMAIN fnIn.args |-> Abs(fnIn.args[i], fnIn.wdOk)]
\* how often x occurs in the list a
Count(a, x) == Cardinality({i \in DOMAIN a : a[i] = x})

\* C13: the working root list is in ascending lexicographic order and holds no
\* empty entry: every blanked entry is removed and every path that was made
\* absolute is kept, as often as it was given.
C13_WorkingListSortedNoEmpty ==
  (fnOut.done /\ fnIn.op = "resolve")
    => LET l == fnOut.list
       IN /\ \A i \in 1..(Len(l) - 1) : ~StrLess(l[i + 1], l[i])
          /\ \A i \in DOMAIN l : l[i] # <<>>
          /\ Len(l) = Cardinality({i \in DOMAIN FnAbs : ~FnAbs[i].err})
          /\ \A i \in DOMAIN FnAbs :
               ~FnAbs[i].err =>
                 Count(l, FnAbs[i].path) =
                   Cardinality({j \in DOMAIN FnAbs : ~FnAbs[j].err /\ FnAbs[j].path = FnAbs[i].path})

C13_Witness ==
  /\ fnOut.done /\ ~fnIn.wdOk
  /\ fnIn.args = << <<47,98>>, <<98>>, <<47,97>> >>
  /\ fnOut.list = << <<47,97>>, <<47,98>> >>

\* C14: the working root list holds no path twice: arguments that resolve
\* to the same absolute path occur in it once.
C14_WorkingListDeduplicated ==
  (fnOut.done /\ fnIn.op = "resolve")
    => \A i, j \in DOMAIN fnOut.list : fnOut.list[i] = fnOut.list[j] => i = j

\* the last component of the path names a hidden or temporary entry
HiddenName(path) ==
  LET e == Split(path).elem
  IN e # <<>> /\ (e[1] \in {46, 35, 126} \/ e[Len(e)] = 126)
\* what the callback does with an entry of each class: SKIP-SUBTREE returns
\* SkipDir; SKIP-ENTRY returns nil at once; INCLUDE returns nil after the
\* error was logged or, without one, a regular file was added
Outcome(class, info, err) ==
  CASE class = "SKIP-SUBTREE" -> [ret |-> "SkipDir", add |-> FALSE, logged |-> FALSE]
    [] class = "SKIP-ENTRY"   -> [ret |-> "nil", add |-> FALSE, logged |-> FALSE]
    [] class = "INCLUDE"      -> [ret |-> "nil", add |-> ~err /\ info.regular, logged |-> err]

\* C15: an entry is SKIP-SUBTREE when it is a directory and a pattern matches
\* its full path; otherwise, with a hidden or temporary name, SKIP-SUBTREE
\* when a directory and SKIP-ENTRY when not; otherwise INCLUDE.  A file that
\* is no directory, matches a pattern and has no hidden name is INCLUDE.
C15_CallbackClassification ==
  (fnOut.done /\ fnIn.op = "classify")
    => LET dir == fnIn.info.isDir
           class == IF dir /\ anyRegexpMatches(fnIn.patterns, fnIn.path) THEN "SKIP-SUBTREE"
                    ELSE IF HiddenName(fnIn.path)
                         THEN (IF dir THEN "SKIP-SUBTREE" ELSE "SKIP-ENTRY")
                    ELSE "INCLUDE"
       IN fnOut.res = Outcome(class, fnIn.info, fnIn.err)

C15_Witness ==
  /\ fnOut.done /\ fnIn.op = "classify"
  /\ fnIn.patterns = BuiltinPatterns
  /\ fnIn.path = <<47,98,47,118,101,110,118>>
  /\ ~fnIn.info.isDir /\ fnIn.info.regular /\ ~fnIn.err
  /\ anyRegexpMatches(fnIn.patterns, fnIn.path)
  /\ fnOut.res.ret = "nil" /\ fnOut.res.add

\* the directories of the corpus that a pattern of this run matches or whose
\* name is hidden
ExcludedDirs ==
  {d \in fs : EntryOf(d).isDir /\ (anyRegexpMatches(excludeRegexp, d) \/ HiddenName(d))}
\* the walk of this run has come to its end
WalkOver == {"flush", "merge", "merging", "remove", "rename", "finish"}

\* C16 (as stated): nothing beneath an excluded or hidden directory is ever
\* visited, added to the index or logged, and once the walk is over every
\* sibling of such a directory that the walk visited has been visited too.
C16_ExcludedSubtreeNotVisited ==
  pc \in Building
    => \A d \in ExcludedDirs :
         /\ \A p \in Beneath(d) \ {d} :
              /\ p \notin visited \cup errlog
              /\ p \notin Range(ix.names) \cup Range(stack)
         /\ (pc \in WalkOver /\ d \in visited)
              => \A q \in fs : Split(q).dir = Split(d).dir => q \in visited

\* the roots of this run that lie beneath the directory d
RootsInside(d) == {g \in Range(args) : g \in Beneath(d) \ {d}}

\* C16 (amended): the walk never descends through an excluded or hidden
\* directory: an entry beneath one is visited, added or logged only at or
\* beneath a root that was itself given inside that directory; the siblings
\* of such a directory that the walk visited are visited as before.
C16_ExcludedSubtreeNotDescended ==
  pc \in Building
    => \A d \in ExcludedDirs :
         /\ \A p \in Beneath(d) \ {d} :
              (p \in visited \cup errlog \cup Range(ix.names) \cup Range(stack))
                => \E g \in RootsInside(d) : p \in Beneath(g)
         /\ (pc \in WalkOver /\ d \in visited)
              => \A q \in fs : Split(q).dir = Split(d).dir => q \in visited

C16_Witness ==
  /\ pc = "flush"
  /\ <<47,97,47,115>> \in ExcludedDirs \cap visited
  /\ <<47,97,47,115,47,103>> \in fs
  /\ <<47,97,47,102>> \in Range(ix.names)
  /\ <<47,97,47,116,126>> \in visited

\* C17: a build run takes its steps in this order: every root is walked
\* before the flush; in incremental mode the flush has completed the staging
\* index before the merge starts, the merge has written its output to the end
\* before the staging index is removed, and the removal precedes the rename
\* that ends the run; in reset mode the flush ends the run, and no merge,
\* removal or rename takes place.
C17_BuildStepOrder ==
  [][ /\ (pc # "flush" /\ pc' = "flush")
          => pc = "walk" /\ rootIdx = Len(args) /\ stack = <<>>
      /\ (pc # "merge" /\ pc' = "merge")
          => pc = "flush" /\ ~resetFlag /\ disk'[file].complete
      /\ (pc # "merging" /\ pc' = "merging")
          => pc = "merge" /\ disk[file].complete
      /\ (pc # "remove" /\ pc' = "remove")
          => pc = "merging" /\ disk'[tmp2].complete
      /\ (pc # "rename" /\ pc' = "rename")
          => pc = "remove" /\ disk[tmp2].complete /\ ~disk'[tmp1].exists
      /\ (pc # "finish" /\ pc' = "finish")
          => \/ pc = "rename" /\ ~resetFlag /\ disk'[master] = disk[tmp2]
             \/ pc = "flush" /\ resetFlag /\ disk'[master].complete
      /\ (pc \in WalkOver /\ disk[file].exists /\ ~disk'[file].exists)
          => pc = "remove" /\ ~resetFlag /\ disk[tmp2].complete
      /\ (pc # "idle" /\ resetFlag)
          => /\ pc' \notin {"merge", "merging", "remove", "rename"}
             /\ disk'[tmp1] = disk[tmp1] /\ disk'[tmp2] = disk[tmp2] ]_vars

C17_Witness ==
  /\ pc = "finish" /\ ~resetFlag
  /\ rootIdx = Len(args) /\ Len(args) > 1
  /\ disk[master].complete /\ disk[master] # before[master]
  /\ ~disk[tmp1].exists /\ ~disk[tmp2].exists

\* C18: a build run is in reset mode exactly when -reset was given or the
\* master did not exist when the run looked for it.  In reset mode the new
\* index is created at the master path.  In incremental mode it is created
\* at master~ and the merge output at master~~, the three paths differ, and
\* neither the creation nor the merge writes to the master path.
C18_ModeAndPaths ==
  pc \in Building
    => /\ resetFlag <=> (run.reset \/ ~before[master].exists)
       /\ resetFlag
            => /\ file = master
               /\ pc = "walk" => disk[master] = PartialFile
               /\ disk[tmp1] = before[tmp1] /\ disk[tmp2] = before[tmp2]
       /\ ~resetFlag
            => /\ file = tmp1
               /\ Cardinality({master, tmp1, tmp2}) = 3
               /\ pc = "walk" => disk[tmp1] = PartialFile
               /\ pc = "merging" => disk[tmp2] = PartialFile
               /\ pc = "remove" => disk[tmp2].complete
               /\ pc \in PreRename => disk[master] = before[master]

C18_Witness ==
  /\ pc = "merging" /\ ~resetFlag /\ ~run.reset
  /\ before[master].complete /\ disk[master] = before[master]
  /\ disk[tmp1].complete /\ disk[tmp1] # disk[master]
  /\ disk[tmp2] = PartialFile

\* the working root list of the last run, as a set
WorkingRoots == IF run.args = <<>> THEN RootSet(before[master]) ELSE ResolvedGiven

\* C19: every path of the working root list is recorded as a root in the new
\* index, whether or not its walk yields a file: when a build run that
\* started walking has ended by itself, every such path is a root of the
\* staging index or of the master the staging index has become.
C19_EveryRootRecorded ==
  (pc = "idle" /\ endpc \in {"walk", "finish"} /\ exit \in {"ok", "panic"})
    => WorkingRoots \subseteq RootSet(disk[master]) \cup RootSet(disk[tmp1])

\* the master holds the roots and files it would hold had the run found
\* neither temporary file, and the run has met the same answers from the
\* index directory on its way
SameAsWithoutStrays ==
  /\ RootSet(disk[master]) = RootSet(shadow[master])
  /\ FileSet(disk[master]) = FileSet(shadow[master])
  /\ CanOpen(disk[master]) = CanOpen(shadow[master])
  /\ pc = "merge"
       => LET m == MergeCall(file)
          IN /\ CanOpen(disk[m.src1]) = CanOpen(shadow[m.src1])
             /\ CanOpen(disk[m.src2]) = CanOpen(shadow[m.src2])
\* a build run has reached "done"
BuildDone == pc = "finish" \/ (pc = "idle" /\ exit = "ok" /\ endpc = "finish")

\* C20 (as stated): what master~ and master~~ hold when a run starts has no
\* effect on the roots and files of the master the run leaves, and after a
\* completed build run neither master~ nor master~~ exists.
C20_StrayTemporariesOverwritten ==
  /\ runs > 0 => SameAsWithoutStrays
  /\ BuildDone => ~disk[tmp1].exists /\ ~disk[tmp2].exists

\* C20 (amended): what master~ and master~~ hold when a run starts has no
\* effect on the roots and files of the master the run leaves; after a
\* completed incremental build run neither master~ nor master~~ exists, and
\* a build run in reset mode leaves both as it found them.
C20_StrayTemporariesNoEffect ==
  /\ runs > 0 => SameAsWithoutStrays
  /\ (pc = "finish" /\ ~resetFlag) => ~disk[tmp1].exists /\ ~disk[tmp2].exists
  /\ (pc \in Building /\ resetFlag) => disk[tmp1] = before[tmp1] /\ disk[tmp2] = before[tmp2]

C20_Witness ==
  /\ pc = "finish" /\ ~resetFlag
  /\ before[tmp1].exists /\ before[tmp2].complete
  /\ disk[master] # before[master]
  /\ ~disk[tmp1].exists /\ ~disk[tmp2].exists

====
